---- MODULE Spec2Model ----
(***************************************************************************)
(* Model of the expire_after state machine of the MQTT sensor entity       *)
(* (homeassistant/components/mqtt/sensor.py, class MqttSensor).            *)
(*                                                                         *)
(* All callbacks and coroutines of the entity run on the one event loop;   *)
(* every handler below runs to completion as one step.  Time is a discrete *)
(* clock `now` (seconds); the timers of async_call_later live in `timers`  *)
(* and fire when the clock reaches their due time.                         *)
(***************************************************************************)
EXTENDS Integers, FiniteSets, Sequences, TLC

\* ------------------------------------------------------------------ bounds
MaxExpireAfter == 2     \* largest configured expire_after (seconds)
MaxTime == 3            \* horizon of the clock
MaxAge == 1             \* a stored last_changed is MaxAge before start, or 0
MaxTimers == 3          \* size of the pool of timer handles

\* --------------------------------------------------------- Python encodings
\* None of an int-typed attribute (expire_after, the timer handle).
None == -1
\* None / True / False of the tri-state attribute _expired.
ExpNone == "None"
ExpTrue == "True"
ExpFalse == "False"
\* Values of _attr_native_value / _attr_last_reset: a tagged value.
NoValue == [kind |-> "none", v |-> ""]
StrValue(s) == [kind |-> "str", v |-> s]
DatetimeValue(s) == [kind |-> "datetime", v |-> s]
DateValue(s) == [kind |-> "date", v |-> s]

PAYLOAD_NONE == "None"
STATE_UNKNOWN == "unknown"
STATE_UNAVAILABLE == "unavailable"
\* PayloadSentinel.DEFAULT, the result of a template that yields nothing.
PayloadDefault == "<DEFAULT>"

\* Rendered payloads a message can carry (result of self._template).
Payloads == {PayloadDefault, "", PAYLOAD_NONE, "10", "2024-01-01T00:00:00"}
\* Rendered payloads of the last_reset template.
ResetPayloads == {"", "10", "2024-01-01T00:00:00"}

\* dt_util.parse_datetime: None (here NoValue) unless the string is a datetime.
parse_datetime(s) ==
    IF s = "2024-01-01T00:00:00" THEN DatetimeValue(s) ELSE NoValue

\* datetime.date()
date(d) ==
    IF d.v = "2024-01-01T00:00:00" THEN DateValue("2024-01-01") ELSE DateValue(d.v)

\* The stored state of a previous run: None or a State(state, last_changed).
NoState == [state |-> "<None>", last_changed |-> 0]
LastStates ==
    {NoState} \cup
    [state : {STATE_UNKNOWN, STATE_UNAVAILABLE}, last_changed : {0}] \cup
    [state : {"7"}, last_changed : {0 - MaxAge, 0}]
\* The stored SensorExtraStoredData of a previous run: None or native_value.
NoSensorData == [present |-> FALSE, native_value |-> NoValue]
LastSensorDatas == {NoSensorData, [present |-> TRUE, native_value |-> StrValue("7")]}

\* Entity configurations (the validated config of the entity).
Configs ==
    {c \in [expire_after : {None} \cup 0..MaxExpireAfter,
            numeric_state_expected : BOOLEAN,
            device_class : {"None", "timestamp", "date"},
            last_reset_value_template : BOOLEAN] :
        c.numeric_state_expected => c.device_class = "None"}

VARIABLES
    config,             \* self._config (validated)
    expire_after,       \* self._expire_after
    expired,            \* self._expired
    expiration_trigger, \* self._expiration_trigger: None or a timer handle
    attr_native_value,  \* self._attr_native_value
    attr_last_reset,    \* self._attr_last_reset
    timers,             \* live timers of the event loop: [id, due]
    now,                \* the clock
    phase,              \* lifecycle of the entity
    last_state,         \* restore-state store: async_get_last_state()
    last_sensor_data,   \* restore-state store: async_get_last_sensor_data()
    wrote_state,        \* the last step called async_write_ha_state
    last_call,          \* the handler that ran last
    last_msg_time,      \* clock of the latest message_received, or None
    queued              \* a message has arrived and waits to be dispatched

vars == <<config, expire_after, expired, expiration_trigger, attr_native_value,
          attr_last_reset, timers, now, phase, last_state, last_sensor_data,
          wrote_state, last_call, last_msg_time, queued>>


\* ------------------------------------------------------------ the scheduler
\* A handle not used by a live timer and not the one still held.
FreeIds(ts, held) == {i \in 1..MaxTimers : i # held /\ \A t \in ts : t.id # i}

FreshId(ts, held) ==
    CHOOSE i \in FreeIds(ts, held) : \A j \in FreeIds(ts, held) : i <= j

\* async_call_later(hass, delay, action): a new timer due `delay` from now.
async_call_later(ts, held, delay, clock) ==
    [id |-> FreshId(ts, held), due |-> clock + delay]

\* Calling the CALLBACK_TYPE returned by async_call_later cancels the timer.
cancel(ts, handle) == {t \in ts : t.id # handle}

\* ------------------------------------------------------------- construction
\* Variant: expire_after is only tested for None, not for being positive.
SetupExpired_NoPositiveCheck(ea) ==
    IF ea # None THEN ExpTrue ELSE ExpNone

\* _setup_from_config: the value of _expired for a given expire_after.
SetupExpired(ea) ==
    IF ea # None /\ ea > 0 THEN ExpTrue ELSE ExpNone

Init ==
    /\ config \in Configs
    /\ expire_after = config.expire_after
    /\ expired = SetupExpired(config.expire_after)
    /\ expiration_trigger = None
    /\ attr_native_value = NoValue
    /\ attr_last_reset = NoValue
    /\ timers = {}
    /\ now = 0
    /\ phase = "constructed"
    /\ last_state \in LastStates
    /\ last_sensor_data \in LastSensorDatas
    /\ wrote_state = FALSE
    /\ last_call = "__init__"
    /\ last_msg_time = None
    /\ queued = FALSE

\* _prepare_subscribe_topics / _subscribe_topics: message_received is
\* registered for the state topic.
SubscribeTopics ==
    /\ phase = "constructed"
    /\ phase' = "subscribed"
    /\ wrote_state' = FALSE
    /\ last_call' = "_subscribe_topics"
    /\ UNCHANGED <<queued, config, expire_after, expired, expiration_trigger,
                   attr_native_value, attr_last_reset, timers, now,
                   last_state, last_sensor_data, last_msg_time>>

\* ---------------------------------------------------------- message_received
\* "auto-expire enabled?": expire_after is not None and expire_after > 0.
AutoExpireEnabled(ea) == ea # None /\ ea > 0

\* Variant: the held trigger is not called, the old timer stays live.
ResetOldTrigger_NoCancel(ts, trigger) == ts

\* "Reset old trigger": call the held cancel callback when there is one.
ResetOldTrigger(ts, trigger) ==
    IF trigger # None THEN cancel(ts, trigger) ELSE ts

\* "Set new trigger": async_call_later(hass, self._expire_after, ...).
SetNewTrigger(ts, held, ea, clock) == async_call_later(ts, held, ea, clock)

\* Variant: a pending trigger is kept instead of being rescheduled.
UpdateExpiration_KeepPending(ea, exp, trigger, ts, clock) ==
    IF AutoExpireEnabled(ea)
    THEN IF trigger # None
         THEN [expired |-> ExpFalse, trigger |-> trigger, timers |-> ts]
         ELSE LET timer == SetNewTrigger(ts, trigger, ea, clock)
              IN  [expired |-> ExpFalse,
                   trigger |-> timer.id,
                   timers |-> ts \cup {timer}]
    ELSE [expired |-> exp, trigger |-> trigger, timers |-> ts]

\* The expire_after part of _update_state: the new _expired,
\* _expiration_trigger and set of live timers.
UpdateExpiration(ea, exp, trigger, ts, clock) ==
    IF AutoExpireEnabled(ea)
    THEN LET reset == ResetOldTrigger(ts, trigger)
             timer == SetNewTrigger(reset, trigger, ea, clock)
         IN  [expired |-> ExpFalse,
              trigger |-> timer.id,
              timers |-> reset \cup {timer}]
    ELSE [expired |-> exp, trigger |-> trigger, timers |-> ts]

\* Variant: an empty payload of a numeric sensor is not ignored.
UpdateNativeValue_NoEmptyCheck(value, payload, cfg) ==
    IF payload = PayloadDefault THEN value
    ELSE IF cfg.numeric_state_expected
    THEN IF payload = PAYLOAD_NONE THEN NoValue
         ELSE StrValue(payload)
    ELSE IF cfg.device_class = "None" THEN StrValue(payload)
    ELSE IF parse_datetime(payload) = NoValue THEN NoValue
    ELSE IF cfg.device_class = "date" THEN date(parse_datetime(payload))
    ELSE parse_datetime(payload)

\* The payload part of _update_state: the new _attr_native_value.
UpdateNativeValue(value, payload, cfg) ==
    IF payload = PayloadDefault THEN value
    ELSE IF cfg.numeric_state_expected
    THEN IF payload = "" THEN value
         ELSE IF payload = PAYLOAD_NONE THEN NoValue
         ELSE StrValue(payload)
    ELSE IF cfg.device_class = "None" THEN StrValue(payload)
    ELSE IF parse_datetime(payload) = NoValue THEN NoValue
    ELSE IF cfg.device_class = "date" THEN date(parse_datetime(payload))
    ELSE parse_datetime(payload)

\* _update_last_reset: the new _attr_last_reset.
UpdateLastReset(last_reset, payload) ==
    IF payload = "" THEN last_reset
    ELSE IF parse_datetime(payload) = NoValue THEN last_reset
    ELSE parse_datetime(payload)

\* write_state_on_attr_change(self, {"_attr_native_value",
\* "_attr_last_reset", "_expired"}): the state is written when one changed.
AttrChanged ==
    \/ attr_native_value' # attr_native_value
    \/ attr_last_reset' # attr_last_reset
    \/ expired' # expired

\* message_received runs for a message of the subscribed state topic.
HandleMessage(payload, reset_payload) ==
    /\ phase \in {"subscribed", "added"}
    /\ AutoExpireEnabled(expire_after) =>
          /\ now + expire_after <= MaxTime
          /\ FreeIds(timers, expiration_trigger) # {}
    /\ LET upd == UpdateExpiration(expire_after, expired, expiration_trigger,
                                   timers, now)
       IN  /\ expired' = upd.expired
           /\ expiration_trigger' = upd.trigger
           /\ timers' = upd.timers
    /\ attr_native_value' = UpdateNativeValue(attr_native_value, payload, config)
    /\ attr_last_reset' =
          IF config.last_reset_value_template
          THEN UpdateLastReset(attr_last_reset, reset_payload)
          ELSE attr_last_reset
    /\ wrote_state' = AttrChanged
    /\ last_call' = "message_received"
    /\ last_msg_time' = now
    /\ UNCHANGED <<config, expire_after, now, phase, last_state, last_sensor_data>>

\* A message arrives and is dispatched to message_received at once.
MessageReceived(payload, reset_payload) ==
    /\ HandleMessage(payload, reset_payload)
    /\ UNCHANGED queued

\* --------------------------------------------------------- _value_is_expired
\* Variant: the callback leaves _expiration_trigger set.
ValueIsExpired_KeepTrigger(t) ==
    /\ t \in timers
    /\ t.due <= now
    /\ timers' = timers \ {t}
    /\ expired' = ExpTrue
    /\ wrote_state' = TRUE
    /\ last_call' = "_value_is_expired"
    /\ UNCHANGED <<queued, config, expire_after, expiration_trigger, attr_native_value,
                   attr_last_reset, now, phase, last_state, last_sensor_data,
                   last_msg_time>>

\* Variant: the callback also clears the value.
ValueIsExpired_ClearsValue(t) ==
    /\ t \in timers
    /\ t.due <= now
    /\ timers' = timers \ {t}
    /\ expiration_trigger' = None
    /\ expired' = ExpTrue
    /\ attr_native_value' = NoValue
    /\ wrote_state' = TRUE
    /\ last_call' = "_value_is_expired"
    /\ UNCHANGED <<queued, config, expire_after, attr_last_reset,
                   now, phase, last_state, last_sensor_data, last_msg_time>>

\* Variant: the callback does not set _expired.
ValueIsExpired_NoFlag(t) ==
    /\ t \in timers
    /\ t.due <= now
    /\ timers' = timers \ {t}
    /\ expiration_trigger' = None
    /\ wrote_state' = TRUE
    /\ last_call' = "_value_is_expired"
    /\ UNCHANGED <<queued, config, expire_after, expired, attr_native_value,
                   attr_last_reset, now, phase, last_state, last_sensor_data,
                   last_msg_time>>

\* Variant: the callback does not write the state.
ValueIsExpired_NoWrite(t) ==
    /\ t \in timers
    /\ t.due <= now
    /\ timers' = timers \ {t}
    /\ expiration_trigger' = None
    /\ expired' = ExpTrue
    /\ wrote_state' = FALSE
    /\ last_call' = "_value_is_expired"
    /\ UNCHANGED <<queued, config, expire_after, attr_native_value,
                   attr_last_reset, now, phase, last_state, last_sensor_data,
                   last_msg_time>>

\* The event loop runs the callback of a live timer that is due.
ValueIsExpired(t) ==
    /\ t \in timers
    /\ t.due <= now
    /\ timers' = timers \ {t}
    /\ expiration_trigger' = None
    /\ expired' = ExpTrue
    /\ wrote_state' = TRUE
    /\ last_call' = "_value_is_expired"
    /\ UNCHANGED <<queued, config, expire_after, attr_native_value, attr_last_reset,
                   now, phase, last_state, last_sensor_data, last_msg_time>>

\* The clock advances; a due timer runs before the clock moves on.
Tick ==
    /\ now < MaxTime
    /\ \A t \in timers : t.due > now
    /\ now' = now + 1
    /\ wrote_state' = FALSE
    /\ last_call' = "tick"
    /\ UNCHANGED <<queued, config, expire_after, expired, expiration_trigger,
                   attr_native_value, attr_last_reset, timers, phase,
                   last_state, last_sensor_data, last_msg_time>>

\* ------------------------------------------------- mqtt_async_added_to_hass
\* Variant: a trigger set up by an earlier message is not checked.
RestoreAttempted_NoTriggerCheck(ea, ls, lsd, trigger) ==
    /\ AutoExpireEnabled(ea)
    /\ ls # NoState
    /\ ls.state \notin {STATE_UNKNOWN, STATE_UNAVAILABLE}
    /\ lsd # NoSensorData

\* The condition of the if statement: restoring is attempted.
RestoreAttempted(ea, ls, lsd, trigger) ==
    /\ AutoExpireEnabled(ea)
    /\ ls # NoState
    /\ ls.state \notin {STATE_UNKNOWN, STATE_UNAVAILABLE}
    /\ lsd # NoSensorData
    /\ trigger = None

\* Variant: the time already elapsed since last_changed is ignored.
RemainSeconds_FromNow(ls, ea, clock) == ea

\* expiration_at = last_changed + expire_after;
\* remain_seconds = expiration_at - utcnow()
RemainSeconds(ls, ea, clock) == (ls.last_changed + ea) - clock

\* Variant: a state with no time left is recovered too.
Restores_AtBoundary(ea, ls, lsd, trigger, clock) ==
    /\ RestoreAttempted(ea, ls, lsd, trigger)
    /\ RemainSeconds(ls, ea, clock) >= 0

\* The state is recovered: the condition holds and time remains.
Restores(ea, ls, lsd, trigger, clock) ==
    /\ RestoreAttempted(ea, ls, lsd, trigger)
    /\ RemainSeconds(ls, ea, clock) > 0

MqttAsyncAddedToHass ==
    /\ phase = "subscribed"
    /\ phase' = "added"
    /\ IF Restores(expire_after, last_state, last_sensor_data,
                   expiration_trigger, now)
       THEN LET remain == RemainSeconds(last_state, expire_after, now)
                timer == async_call_later(timers, expiration_trigger, remain, now)
            IN  /\ now + remain <= MaxTime
                /\ FreeIds(timers, expiration_trigger) # {}
                /\ expired' = ExpFalse
                /\ attr_native_value' = last_sensor_data.native_value
                /\ expiration_trigger' = timer.id
                /\ timers' = timers \cup {timer}
       ELSE UNCHANGED <<expired, attr_native_value, expiration_trigger, timers>>
    /\ wrote_state' = FALSE
    /\ last_call' = "mqtt_async_added_to_hass"
    /\ UNCHANGED <<queued, config, expire_after, attr_last_reset, now, last_state,
                   last_sensor_data, last_msg_time>>

\* ---------------------------------------------- async_will_remove_from_hass
\* Variant: the trigger is dropped without being called.
CleanUpTrigger_NoCancel(exp, trigger, ts) ==
    IF trigger # None
    THEN [expired |-> ExpFalse, trigger |-> None, timers |-> ts]
    ELSE [expired |-> exp, trigger |-> trigger, timers |-> ts]

\* Variant: _expired is reset even when no trigger is held.
CleanUpTrigger_AlwaysReset(exp, trigger, ts) ==
    IF trigger # None
    THEN [expired |-> ExpFalse, trigger |-> None, timers |-> cancel(ts, trigger)]
    ELSE [expired |-> ExpFalse, trigger |-> trigger, timers |-> ts]

\* Variant: the cleanup marks the value expired instead of resetting it.
CleanUpTrigger_MarksExpired(exp, trigger, ts) ==
    IF trigger # None
    THEN [expired |-> ExpTrue, trigger |-> None, timers |-> cancel(ts, trigger)]
    ELSE [expired |-> exp, trigger |-> trigger, timers |-> ts]

\* "Clean up expire triggers": the new _expired, _expiration_trigger, timers.
CleanUpTrigger(exp, trigger, ts) ==
    IF trigger # None
    THEN [expired |-> ExpFalse, trigger |-> None, timers |-> cancel(ts, trigger)]
    ELSE [expired |-> exp, trigger |-> trigger, timers |-> ts]

\* The entity is removed: its trigger is cleaned up and the base class
\* unsubscribes its topics, within the same uninterrupted step.
AsyncWillRemoveFromHass ==
    /\ phase \in {"added", "removed"}
    /\ phase' = "removed"
    /\ LET c == CleanUpTrigger(expired, expiration_trigger, timers)
       IN  /\ expired' = c.expired
           /\ expiration_trigger' = c.trigger
           /\ timers' = c.timers
    /\ wrote_state' = FALSE
    /\ last_call' = "async_will_remove_from_hass"
    /\ UNCHANGED <<queued, config, expire_after, attr_native_value, attr_last_reset,
                   now, last_state, last_sensor_data, last_msg_time>>

\* ------------------------------------------------------------------ available
\* Python's `not x` for the tri-state _expired: None and False are falsy.
Not(x) == x \in {ExpNone, ExpFalse}

\* Variant: only an explicit False counts as not expired.
available_OnlyFalse(base) ==
    base /\ (expire_after = None \/ expired = ExpFalse)

\* The property `available`; base is MqttAvailability.available of the entity.
available(base) ==
    base /\ (expire_after = None \/ Not(expired))

Next ==
    \/ SubscribeTopics
    \/ \E payload \in Payloads :
          \E reset_payload \in
                IF config.last_reset_value_template THEN ResetPayloads ELSE {""} :
             MessageReceived(payload, reset_payload)
    \/ \E t \in timers : ValueIsExpired(t)
    \/ Tick
    \/ MqttAsyncAddedToHass
    \/ AsyncWillRemoveFromHass

Spec == Init /\ [][Next]_vars

\* The event loop keeps running: the clock advances and due timers fire.
FairSpec ==
    /\ Spec
    /\ WF_vars(Tick)
    /\ WF_vars(\E t \in timers : ValueIsExpired(t))

\* ------------------------------------------- messages in flight at removal
\* A numeric sensor without last_reset template, with or without a stored
\* state: the configurations the two specifications below start from.
CoreConfigs ==
    {c \in Configs : c.numeric_state_expected /\ ~c.last_reset_value_template}

InitCore ==
    /\ Init
    /\ config \in CoreConfigs
    /\ last_state \in {NoState, [state |-> "7", last_changed |-> 0]}
    /\ last_sensor_data # NoSensorData

\* A message of the subscribed topic arrives at the client and waits for
\* the event loop to dispatch it.
MessageArrives ==
    /\ phase \in {"subscribed", "added"}
    /\ ~queued
    /\ queued' = TRUE
    /\ wrote_state' = FALSE
    /\ last_call' = "message_arrives"
    /\ UNCHANGED <<config, expire_after, expired, expiration_trigger,
                   attr_native_value, attr_last_reset, timers, now, phase,
                   last_state, last_sensor_data, last_msg_time>>

\* The event loop dispatches the waiting message: message_received runs
\* when the topic is still subscribed, otherwise the message is dropped.
DispatchQueued(payload, reset_payload) ==
    /\ queued
    /\ queued' = FALSE
    /\ IF phase \in {"subscribed", "added"}
       THEN HandleMessage(payload, reset_payload)
       ELSE /\ wrote_state' = FALSE
            /\ last_call' = "message_dropped"
            /\ UNCHANGED <<config, expire_after, expired, expiration_trigger,
                           attr_native_value, attr_last_reset, timers, now,
                           phase, last_state, last_sensor_data, last_msg_time>>

NextRemoval ==
    \/ Next
    \/ MessageArrives
    \/ \E payload \in Payloads : DispatchQueued(payload, "")

\* The entity with messages that can be in flight while it is removed.
RemovalSpec == InitCore /\ [][NextRemoval]_vars

\* ------------------------------------------------------ configuration update
\* _setup_from_config runs again on the added entity with a new config.
SetupFromConfig(c) ==
    /\ phase = "added"
    /\ config' = c
    /\ expire_after' = c.expire_after
    /\ expired' = SetupExpired(c.expire_after)
    /\ wrote_state' = FALSE
    /\ last_call' = "_setup_from_config"
    /\ UNCHANGED <<queued, expiration_trigger, attr_native_value,
                   attr_last_reset, timers, now, phase, last_state,
                   last_sensor_data, last_msg_time>>

NextReconfig ==
    \/ Next
    \/ \E c \in CoreConfigs : SetupFromConfig(c)

\* The entity with configuration updates.
ReconfigSpec == InitCore /\ [][NextReconfig]_vars

\* ------------------------------------------------------------------- types
TypeOK ==
    /\ config \in Configs
    /\ expire_after \in {None} \cup 0..MaxExpireAfter
    /\ expired \in {ExpNone, ExpTrue, ExpFalse}
    /\ expiration_trigger \in {None} \cup 1..MaxTimers
    /\ \A t \in timers : t.id \in 1..MaxTimers /\ t.due \in 0..MaxTime
    /\ now \in 0..MaxTime
    /\ phase \in {"constructed", "subscribed", "added", "removed"}
    /\ last_call \in {"__init__", "_subscribe_topics", "message_received",
                      "_value_is_expired", "tick", "mqtt_async_added_to_hass",
                      "async_will_remove_from_hass", "message_arrives",
                      "message_dropped", "_setup_from_config"}
    /\ last_state \in LastStates
    /\ last_sensor_data \in LastSensorDatas
    /\ wrote_state \in BOOLEAN
    /\ last_msg_time \in {None} \cup 0..MaxTime
    /\ queued \in BOOLEAN
\* ================================================================== claims
\* The timer the entity holds: the live timer _expiration_trigger refers to.
HeldTimers == {t \in timers : t.id = expiration_trigger}

\* C1: with a positive expire_after, right after a message is handled
\* _expired is False and exactly one timer is live, the new one held in
\* _expiration_trigger and due expire_after from now; every timer that was
\* live before the message has been cancelled and can no longer fire.
C1_UpdateReschedules ==
    [][(last_call' = "message_received" /\ expire_after # None /\ expire_after > 0)
        => /\ expired' = ExpFalse
           /\ Cardinality(timers') = 1
           /\ \A t \in timers' :
                 t.id = expiration_trigger' /\ t.due = now' + expire_after
           /\ timers \cap timers' = {}
           /\ \A t \in timers : t.id # expiration_trigger']_vars

\* A message was handled while an earlier timer was still pending: the new
\* handle is the second of the pool, the first being held by that timer.
C1_Witness ==
    /\ last_call = "message_received"
    /\ expire_after = 2
    /\ expiration_trigger = 2
    /\ timers = {[id |-> 2, due |-> now + 2]}
    /\ expired = ExpFalse

\* C2: in every reachable state at most one timer is live, and a live timer
\* is the one _expiration_trigger refers to.
C2_AtMostOneLiveTimer ==
    /\ Cardinality(timers) <= 1
    /\ \A t \in timers : t.id = expiration_trigger

\* A timer is live after restore, messages and an earlier expiry.
C2_Witness ==
    /\ phase = "added"
    /\ Cardinality(timers) = 1
    /\ HeldTimers = timers
    /\ last_msg_time # None
    /\ now > 0

\* C3: in every reachable state with expire_after set, a pending trigger
\* implies that _expired is False.
C3_PendingImpliesNotExpired ==
    (expire_after # None /\ expiration_trigger # None) => expired = ExpFalse

\* A message arrived at 2 on an entity that was expired since construction:
\* its trigger is pending and the value is not expired.
C3_Witness ==
    /\ expire_after = 1
    /\ last_call = "message_received"
    /\ now = 2
    /\ expiration_trigger = 1
    /\ expired = ExpFalse

\* C4: when the timer fires, _value_is_expired sets _expired to True, clears
\* _expiration_trigger and leaves the value (and last_reset) as they were.
C4_ExpiryKeepsValue ==
    [][last_call' = "_value_is_expired"
        => /\ expired' = ExpTrue
           /\ expiration_trigger' = None
           /\ attr_native_value' = attr_native_value
           /\ attr_last_reset' = attr_last_reset]_vars

\* The timer of the message "10" received expire_after ago has fired and the
\* value is still "10".
C4_Witness ==
    /\ last_call = "_value_is_expired"
    /\ expire_after = 2
    /\ last_msg_time # None
    /\ now = last_msg_time + 2
    /\ attr_native_value = StrValue("10")
    /\ expired = ExpTrue
    /\ expiration_trigger = None

\* C5: with a positive expire_after and a latest message at time m: before
\* m + expire_after the value is not expired and its one timer is due at
\* m + expire_after; no timer is ever overdue; and once the clock has passed
\* m + expire_after on an entity that was not removed the value is expired.
C5_ExpiresAfterLatestMessage ==
    (expire_after # None /\ expire_after > 0 /\ last_msg_time # None)
    => /\ now < last_msg_time + expire_after
            => /\ expired = ExpFalse
               /\ phase # "removed"
                    => /\ timers # {}
                       /\ \A t \in timers : t.due = last_msg_time + expire_after
       /\ \A t \in timers : t.due >= now
       /\ (now > last_msg_time + expire_after /\ phase # "removed")
            => (expired = ExpTrue /\ timers = {})

\* expire_after is 2, the latest message came at 1 and replaced a pending
\* timer; at 2 nothing has expired.
C5_Witness ==
    /\ expire_after = 2
    /\ last_msg_time = 1
    /\ now = 2
    /\ last_call = "tick"
    /\ expired = ExpFalse
    /\ timers = {[id |-> 2, due |-> 3]}

\* C6: with the event loop running (FairSpec), every pending trigger is
\* followed by the value being expired, unless the entity is removed or a
\* further message replaces the trigger by a new one.
C6_EventuallyExpired ==
    \A id \in 1..MaxTimers :
        (expiration_trigger = id /\ expire_after # None /\ expire_after > 0)
        ~> \/ expired = ExpTrue
           \/ phase = "removed"
           \/ expiration_trigger \notin {id, None}

\* The timer of a restored state, with no message ever received, has fired.
C6_Witness ==
    /\ last_call = "_value_is_expired"
    /\ last_msg_time = None
    /\ phase = "added"
    /\ expired = ExpTrue
    /\ attr_native_value = StrValue("7")

\* C7: once async_will_remove_from_hass has run no timer is live, no trigger
\* is held, and _value_is_expired never runs again however far the clock
\* advances.
C7_NoExpiryAfterRemove ==
    [][phase' = "removed"
        => /\ timers' = {}
           /\ expiration_trigger' = None
           /\ last_call' # "_value_is_expired"
           /\ expired' = expired \/ last_call' = "async_will_remove_from_hass"]_vars

\* The entity was removed while a timer was pending, and the clock has
\* passed the time the timer was due without the value expiring.
C7_Witness ==
    /\ phase = "removed"
    /\ last_call = "tick"
    /\ expire_after = 1
    /\ last_msg_time # None
    /\ now > last_msg_time + 1
    /\ expired = ExpFalse

\* The stored state can be restored: it is a known state with sensor data.
StoredStateKnown ==
    /\ last_state # NoState
    /\ last_state.state # STATE_UNKNOWN
    /\ last_state.state # STATE_UNAVAILABLE
    /\ last_sensor_data # NoSensorData

\* C8: mqtt_async_added_to_hass on an entity that received no message, with
\* a positive expire_after and now - last_changed < expire_after, sets the
\* value to the stored native value, _expired to False and schedules exactly
\* one timer, with delay last_changed + expire_after - now; that timer fires
\* at last_changed + expire_after and sets _expired to True.
C8_RestoreSchedulesRemaining ==
    [][/\ (/\ last_call' = "mqtt_async_added_to_hass"
           /\ last_msg_time = None
           /\ expire_after # None /\ expire_after > 0
           /\ StoredStateKnown
           /\ now - last_state.last_changed < expire_after)
          => /\ attr_native_value' = last_sensor_data.native_value
             /\ expired' = ExpFalse
             /\ Cardinality(timers') = 1
             /\ \A t \in timers' :
                   /\ t.id = expiration_trigger'
                   /\ t.due - now = last_state.last_changed + expire_after - now
       /\ (last_call' = "_value_is_expired" /\ last_msg_time = None)
          => /\ expired = ExpFalse
             /\ expired' = ExpTrue
             /\ now = last_state.last_changed + expire_after]_vars

\* A state last changed 1 ago was restored with expire_after 2: one timer
\* is pending, due 1 from now.
C8_Witness ==
    /\ last_call = "mqtt_async_added_to_hass"
    /\ last_msg_time = None
    /\ expire_after = 2
    /\ now - last_state.last_changed = 1
    /\ attr_native_value = StrValue("7")
    /\ expired = ExpFalse
    /\ timers = {[id |-> 1, due |-> now + 1]}

\* C9: mqtt_async_added_to_hass with a restorable stored state and
\* now - last_changed >= expire_after restores nothing: value, _expired,
\* trigger and timers are unchanged; on an entity that received no message
\* _expired stays True, the value stays unset and no timer is live.
C9_StaleRestoreSkipped ==
    [][(/\ last_call' = "mqtt_async_added_to_hass"
        /\ expire_after # None /\ expire_after > 0
        /\ StoredStateKnown
        /\ now - last_state.last_changed >= expire_after)
        => /\ UNCHANGED <<attr_native_value, expired, expiration_trigger, timers>>
           /\ last_msg_time = None
                => /\ expired' = ExpTrue
                   /\ attr_native_value' = NoValue
                   /\ attr_native_value' # last_sensor_data.native_value
                   /\ expiration_trigger' = None
                   /\ timers' = {}]_vars

\* The boundary: the stored state changed exactly expire_after ago.
C9_Witness ==
    /\ last_call = "mqtt_async_added_to_hass"
    /\ last_msg_time = None
    /\ expire_after = 2
    /\ StoredStateKnown
    /\ now - last_state.last_changed = 2
    /\ expired = ExpTrue
    /\ attr_native_value = NoValue
    /\ timers = {}

\* C10: mqtt_async_added_to_hass completes and changes nothing (value,
\* _expired, trigger, timers) when a trigger is already pending, when
\* expire_after is None or not positive, and when the stored state is
\* missing, unknown or unavailable.
C10_RestoreNoOp ==
    [][(/\ last_call' = "mqtt_async_added_to_hass"
        /\ \/ expiration_trigger # None
           \/ expire_after = None
           \/ expire_after <= 0
           \/ last_state = NoState
           \/ last_state.state \in {STATE_UNKNOWN, STATE_UNAVAILABLE})
        => /\ phase' = "added"
           /\ UNCHANGED <<attr_native_value, attr_last_reset, expired,
                          expiration_trigger, timers>>]_vars

\* A message "10" set up a trigger before the entity was added; the stored
\* state "7" could still be restored but the value stays "10".
C10_Witness ==
    /\ last_call = "mqtt_async_added_to_hass"
    /\ last_msg_time # None
    /\ expiration_trigger # None
    /\ StoredStateKnown
    /\ last_state.last_changed + expire_after > now
    /\ attr_native_value = StrValue("10")
    /\ expired = ExpFalse

\* C11: in every reachable state and for either value of the base
\* availability, available is the base availability and (expire_after is
\* None or _expired is not True).
C11_AvailableFormula ==
    \A base \in BOOLEAN :
        available(base) <=> (base /\ (expire_after = None \/ expired # ExpTrue))

\* A value restored or received has expired: the entity is unavailable.
C11_Witness ==
    /\ expire_after = 1
    /\ expired = ExpTrue
    /\ last_call = "_value_is_expired"
    /\ phase = "added"
    /\ ~available(TRUE)
    /\ ~available(FALSE)

\* C12: when expire_after is None, _expired is None, no trigger is held, no
\* timer is live, and available equals the base availability, in every state
\* reached by messages and removal.
C12_DisabledStaysDisabled ==
    expire_after = None
    => /\ expired = ExpNone
       /\ expiration_trigger = None
       /\ timers = {}
       /\ \A base \in BOOLEAN : available(base) = base

\* expire_after is None; a message was handled and the entity was removed.
C12_Witness ==
    /\ expire_after = None
    /\ phase = "removed"
    /\ last_call = "async_will_remove_from_hass"
    /\ last_msg_time # None
    /\ attr_native_value = StrValue("10")
    /\ expired = ExpNone

\* C13: until the first message and without a restored state, _expired is
\* True exactly when expire_after is set and positive and None otherwise, no
\* timer is live and no trigger is held; an entity with a positive
\* expire_after that received no message is available only after its stored
\* state was restored.
C13_ConstructedExpired ==
    /\ (last_msg_time = None /\ phase \in {"constructed", "subscribed"})
       => /\ (expire_after # None /\ expire_after > 0) => expired = ExpTrue
          /\ (expire_after = None \/ expire_after = 0) => expired = ExpNone
          /\ expired = ExpTrue => (expire_after # None /\ expire_after > 0)
          /\ timers = {}
          /\ expiration_trigger = None
    /\ (last_msg_time = None /\ expire_after # None /\ expire_after > 0
        /\ available(TRUE))
       => /\ phase \in {"added", "removed"}
          /\ last_state # NoState
          /\ last_state.state \notin {STATE_UNKNOWN, STATE_UNAVAILABLE}
          /\ last_sensor_data # NoSensorData
          /\ last_state.last_changed + expire_after > 0

\* A constructed and subscribed entity with expire_after 2 has waited
\* without a message: it is expired and unavailable, with no timer.
C13_Witness ==
    /\ expire_after = 2
    /\ phase = "subscribed"
    /\ last_msg_time = None
    /\ now = 2
    /\ expired = ExpTrue
    /\ ~available(TRUE)
    /\ timers = {}

\* _expired or the value changes in this step.
CellChanges ==
    \/ expired' # expired
    \/ attr_native_value' # attr_native_value

C15_DisposeIdempotent ==
    /\ [](LET once == CleanUpTrigger(expired, expiration_trigger, timers)
          IN  /\ once.trigger = None
              /\ CleanUpTrigger(once.expired, once.trigger, once.timers) = once)
    /\ [][last_call' = "async_will_remove_from_hass"
          => /\ expiration_trigger' = None
             /\ expiration_trigger = None
                  => UNCHANGED <<expired, expiration_trigger, timers,
                                 attr_native_value, attr_last_reset>>
             /\ last_call = "async_will_remove_from_hass"
                  => UNCHANGED <<expired, expiration_trigger, timers,
                                 attr_native_value, attr_last_reset>>]_vars

\* The entity was removed after its value had expired, with no trigger
\* held: it is still expired.
C15_Witness ==
    /\ last_call = "async_will_remove_from_hass"
    /\ phase = "removed"
    /\ last_msg_time # None
    /\ expired = ExpTrue
    /\ expiration_trigger = None

\* C16: _expired goes from False to True only in a _value_is_expired step
\* of the due timer the trigger refers to; _value_is_expired never runs
\* while no trigger is held.
C16_OnlyTimerExpires ==
    [][/\ (expired = ExpFalse /\ expired' = ExpTrue)
          => /\ last_call' = "_value_is_expired"
             /\ \E t \in timers :
                   /\ t.id = expiration_trigger
                   /\ t.due <= now
                   /\ t \notin timers'
       /\ last_call' = "_value_is_expired"
          => /\ expiration_trigger # None
             /\ timers # {}]_vars

\* The restored value expired when its timer fired.
C16_Witness ==
    /\ last_call = "_value_is_expired"
    /\ last_msg_time = None
    /\ expire_after = 1
    /\ expired = ExpTrue
    /\ now = last_state.last_changed + 1

\* The payload is ignored by _update_state.
IgnoredPayload(payload) ==
    \/ payload = PayloadDefault
    \/ payload = "" /\ config.numeric_state_expected

\* C17: with a positive expire_after every message sets _expired to False,
\* cancels the held timer and schedules exactly one new timer, also when its
\* payload is ignored (the template yields the default sentinel, or the
\* payload is empty for a numeric sensor); then the value is left unchanged.
C17_IgnoredPayloadReschedules ==
    /\ [](\A payload \in Payloads :
             IgnoredPayload(payload)
             => UpdateNativeValue(attr_native_value, payload, config)
                   = attr_native_value)
    /\ [][(last_call' = "message_received"
           /\ expire_after # None /\ expire_after > 0)
          => /\ expired' = ExpFalse
             /\ timers' = {[id |-> expiration_trigger', due |-> now + expire_after]}
             /\ expiration_trigger' # expiration_trigger
             /\ timers \cap timers' = {}
             /\ \E payload \in Payloads :
                   /\ attr_native_value'
                         = UpdateNativeValue(attr_native_value, payload, config)
                   /\ IgnoredPayload(payload)
                         => attr_native_value' = attr_native_value]_vars

\* Two messages were handled by a sensor whose value is still unset: every
\* payload was ignored, yet the second message replaced the first timer.
C17_Witness ==
    /\ last_call = "message_received"
    /\ expire_after = 2
    /\ ~config.numeric_state_expected
    /\ config.device_class = "None"
    /\ attr_native_value = NoValue
    /\ last_msg_time = 1
    /\ expired = ExpFalse
    /\ timers = {[id |-> 2, due |-> 3]}

C19_ReconfigKeepsInvariants ==
    /\ expiration_trigger # None => expired = ExpFalse
    /\ expire_after = None
         => /\ expiration_trigger = None
            /\ timers = {}
            /\ expired = ExpNone

\* C20: async_will_remove_from_hass leaves the value, last_reset and
\* _expired as they were and only cancels and clears the held trigger;
\* whenever it finds a trigger held, _expired is already False.
C20_DisposeOnlyClearsTrigger ==
    [][last_call' = "async_will_remove_from_hass"
        => /\ attr_native_value' = attr_native_value
           /\ attr_last_reset' = attr_last_reset
           /\ expired' = expired
           /\ expiration_trigger' = None
           /\ timers' = timers \ HeldTimers
           /\ expiration_trigger # None => expired = ExpFalse]_vars

\* The entity was removed with the timer of its latest message pending.
C20_Witness ==
    /\ last_call = "async_will_remove_from_hass"
    /\ expire_after = 2
    /\ last_msg_time # None
    /\ now < last_msg_time + 2
    /\ expired = ExpFalse
    /\ expiration_trigger = None
    /\ timers = {}
    /\ attr_native_value = StrValue("10")
====
